---- MODULE Spec2Model ----
(***************************************************************************)
(* byte_counter: fixed-width big-endian byte counters (ByteCounter, BigID) *)
(* and the double-ended Generator over them.                               *)
(*                                                                         *)
(* A counter is a record [prefix, timestamp, id, valid]; id is a sequence  *)
(* of bytes, most significant first.  Text is a sequence of one-character  *)
(* strings.  Option<T> is a sequence of length 0 (None) or 1 (Some).       *)
(***************************************************************************)
EXTENDS Integers, Sequences, FiniteSets, TLC

\* ------------------------------------------------------------------ bounds

\* Number of bytes of a ByteCounter id in the model (mem::size_of::<u64>() in
\* the source).  256^IDENTIFIER_SIZE has to fit TLC's integers.
IDENTIFIER_SIZE == 2

\* Number of bytes of a BigID id in the model (mem::size_of::<u128>() in the
\* source).
BIG_IDENTIFIER_SIZE == 2

\* Largest reading of the wall clock (whole seconds).
MaxClock == 2

\* Largest number of chained next_id / prev_id / next calls on one counter.
MaxSteps == 2

\* Largest numeric gap between the two bounds a Generator starts with.
MaxRange == 3

\* ------------------------------------------------------- program constants

\* u8::MAX
U8_MAX == 255

\* ------------------------------------------------------------ input domains

\* Byte values the inputs are drawn from: both ends of the byte range and
\* their neighbours, so that carry, borrow and wrap all occur.
TestBytes == {0, 1, U8_MAX - 1, U8_MAX}

Ids(w) == [1..w -> TestBytes]

\* Characters of the model's texts, in ASCII order.
Chars == <<"+", "0", "1", "2", "3", "4", "5", "6", "7", "8", "9", ":", "a", "b">>

None == <<>>

Some(x) == <<x>>

\* Prefixes the inputs are drawn from.
Prefixes == {None, Some(<<"a">>), Some(<<"b">>)}

Clock == 1..MaxClock

\* ------------------------------------------------------------------- state

VARIABLES
    now,        \* the wall clock: what epoch_secs() returns
    kind,       \* "ByteCounter" or "BigID": the type the counter calls act on
    chain,      \* the counters derived so far: chain[1] is the input, the
                \* last one the result of the latest next_id / prev_id / next
    ops,        \* ops[i] is the call that derived chain[i+1] from chain[i]
    ret,        \* the result of the latest to_u128 / distance / comparison
    current,    \* Generator.current
    end,        \* Generator.end
    start0,     \* the Generator's current cursor as constructed
    end0,       \* the Generator's end cursor as constructed
    ctor,       \* how the Generator was built: "new", "new_with_prefix", "range"
    fwd,        \* the elements next() has returned, in order
    bwd,        \* the elements next_back() has returned, in order
    result,     \* the Option the latest next() / next_back() returned
    lastCall,   \* "none", "next" or "next_back"
    src,        \* Some(the counter to_string() is called on), or None
    text,       \* Some(the text to decode: an input, or what to_string()
                \* returned), or None
    decoded     \* Some(what from(text) did: a counter or a panic), or None

vars == <<now, kind, chain, ops, ret,
          current, end, start0, end0, ctor, fwd, bwd, result, lastCall,
          src, text, decoded>>

counterVars == <<kind, chain, ops, ret>>

generatorVars == <<current, end, start0, end0, ctor, fwd, bwd, result, lastCall>>

codecVars == <<src, text, decoded>>

\* ------------------------------------------------------------- timestamp.rs

\* Timestamp::new(): the clock reading t wrapped as a Timestamp.
Timestamp_new(t) == t

\* ---------------------------------------------------------------- ordering

Ord(ch) == CHOOSE i \in 1..Len(Chars) : Chars[i] = ch

RECURSIVE LexLessFrom(_, _, _)
LexLessFrom(s, t, i) ==
    IF i > Len(s) THEN i <= Len(t)
    ELSE IF i > Len(t) THEN FALSE
    ELSE IF s[i] < t[i] THEN TRUE
    ELSE IF s[i] > t[i] THEN FALSE
    ELSE LexLessFrom(s, t, i + 1)

\* Lexicographic order of two sequences of numbers ([u8; N], str as bytes).
LexLess(s, t) == LexLessFrom(s, t, 1)

StrLess(s, t) ==
    LexLess([i \in 1..Len(s) |-> Ord(s[i])], [i \in 1..Len(t) |-> Ord(t[i])])

\* Option<String>: None is below every Some.
OptionLess(p, q) ==
    IF p = None THEN q # None
    ELSE IF q = None THEN FALSE
    ELSE StrLess(p[1], q[1])

BoolLess(x, y) == (~x) /\ y

\* #[derive(Ord, PartialOrd)] on ByteCounter: the fields compared in their
\* declaration order prefix, timestamp, id, valid.
ByteCounter_lt(a, b) ==
    IF a.prefix # b.prefix THEN OptionLess(a.prefix, b.prefix)
    ELSE IF a.timestamp # b.timestamp THEN a.timestamp < b.timestamp
    ELSE IF a.id # b.id THEN LexLess(a.id, b.id)
    ELSE BoolLess(a.valid, b.valid)

\* --------------------------------------------------------------- counter.rs

ZeroId(w) == [i \in 1..w |-> 0]

MaxId(w) == [i \in 1..w |-> U8_MAX]

\* impl Default for ByteCounter, read at clock t.
ByteCounter_default(t) ==
    [prefix |-> None, timestamp |-> Timestamp_new(t),
     id |-> ZeroId(IDENTIFIER_SIZE), valid |-> TRUE]

ByteCounter_new(t) == ByteCounter_default(t)

ByteCounter_new_with_prefix(p, t) ==
    [ByteCounter_default(t) EXCEPT !.prefix = Some(p)]

ByteCounter_max(t) ==
    [prefix |-> None, timestamp |-> Timestamp_new(t),
     id |-> MaxId(IDENTIFIER_SIZE), valid |-> TRUE]

\* The loop of next_id over the bytes from index i down to 1 (iter_mut().rev()).
RECURSIVE CarryFrom(_, _)
CarryFrom(id, i) ==
    IF i = 0 THEN id
    ELSE IF id[i] = U8_MAX THEN CarryFrom([id EXCEPT ![i] = 0], i - 1)
    ELSE [id EXCEPT ![i] = id[i] + 1]

\* A carry chain that gives up after the first byte.
NoCarryBytes(id) ==
    LET n == Len(id) IN
    IF n = 0 THEN id
    ELSE IF id[n] = U8_MAX THEN [id EXCEPT ![n] = 0]
    ELSE [id EXCEPT ![n] = id[n] + 1]

next_bytes(id) == CarryFrom(id, Len(id))

\* An increment that inherits the timestamp of the counter it is called on.
next_id_KeepsStamp(self, t) ==
    [prefix |-> self.prefix, timestamp |-> self.timestamp,
     id |-> next_bytes(self.id), valid |-> TRUE]

\* ByteCounter::next_id, with the clock reading t.
next_id(self, t) ==
    [prefix |-> self.prefix, timestamp |-> Timestamp_new(t),
     id |-> next_bytes(self.id), valid |-> TRUE]

\* A borrow chain that leaves the zero bytes it passes at zero.
RECURSIVE BorrowKeepsZero(_, _)
BorrowKeepsZero(id, i) ==
    IF i = 0 THEN id
    ELSE IF id[i] = 0 THEN BorrowKeepsZero(id, i - 1)
    ELSE [id EXCEPT ![i] = id[i] - 1]

\* The loop of prev_id over the bytes from index i down to 1.
RECURSIVE BorrowFrom(_, _)
BorrowFrom(id, i) ==
    IF i = 0 THEN id
    ELSE IF id[i] = 0 THEN BorrowFrom([id EXCEPT ![i] = U8_MAX], i - 1)
    ELSE [id EXCEPT ![i] = id[i] - 1]

\* A borrow chain that gives up after the first byte.
NoBorrowBytes(id) ==
    LET n == Len(id) IN
    IF n = 0 THEN id
    ELSE IF id[n] = 0 THEN [id EXCEPT ![n] = U8_MAX]
    ELSE [id EXCEPT ![n] = id[n] - 1]

prev_bytes(id) == BorrowFrom(id, Len(id))

\* A decrement that leaves the prefix behind.
prev_id_NoPrefix(self, t) ==
    [prefix |-> None, timestamp |-> Timestamp_new(t),
     id |-> prev_bytes(self.id), valid |-> TRUE]

\* ByteCounter::prev_id, with the clock reading t.
prev_id(self, t) ==
    [prefix |-> self.prefix, timestamp |-> Timestamp_new(t),
     id |-> prev_bytes(self.id), valid |-> TRUE]

\* The loop of to_u128 over the bytes from index i down to 1: it stops at the
\* first zero byte and multiplies the bytes seen before it.
RECURSIVE ToU128From(_, _, _)
ToU128From(id, i, acc) ==
    IF i = 0 THEN acc
    ELSE IF id[i] = 0 THEN acc
    ELSE IF acc = 0 THEN ToU128From(id, i - 1, id[i])
    ELSE ToU128From(id, i - 1, acc * id[i])

\* ByteCounter::to_u128
to_u128(self) == ToU128From(self.id, Len(self.id), 0)

\* ByteCounter::distance
distance(self, o) ==
    LET lhs == to_u128(self)
        rhs == to_u128(o)
    IN IF lhs < rhs THEN rhs - lhs ELSE lhs - rhs

\* -------------------------------------------------------------------- id.rs

BigID_default == [id |-> ZeroId(BIG_IDENTIFIER_SIZE), prefix |-> None, valid |-> TRUE]

\* The loop of BigID::next over the bytes from index i down to 1.
RECURSIVE BigID_CarryFrom(_, _)
BigID_CarryFrom(id, i) ==
    IF i = 0 THEN id
    ELSE IF id[i] = U8_MAX THEN BigID_CarryFrom([id EXCEPT ![i] = 0], i - 1)
    ELSE [id EXCEPT ![i] = id[i] + 1]

\* BigID::next
BigID_next(self) ==
    [id |-> BigID_CarryFrom(self.id, Len(self.id)), valid |-> TRUE,
     prefix |-> self.prefix]

\* The loop of BigID::to_u128 over the bytes from index i down to 1.
RECURSIVE BigID_ToU128From(_, _, _)
BigID_ToU128From(id, i, acc) ==
    IF i = 0 THEN acc
    ELSE IF id[i] = 0 THEN acc
    ELSE IF acc = 0 THEN BigID_ToU128From(id, i - 1, id[i])
    ELSE BigID_ToU128From(id, i - 1, acc * id[i])

\* BigID::to_u128
BigID_to_u128(self) == BigID_ToU128From(self.id, Len(self.id), 0)

\* BigID::distance
BigID_distance(self, o) ==
    LET lhs == BigID_to_u128(self)
        rhs == BigID_to_u128(o)
    IN IF lhs < rhs THEN rhs - lhs ELSE lhs - rhs

\* ------------------------------------------------------------- generator.rs

\* Generator::new, the clock read as t1 for current and then as t2 for end.
Generator_new(t1, t2) ==
    [current |-> ByteCounter_new(t1), end |-> ByteCounter_new(t2)]

\* Generator::new_with_prefix, the clock read as t1 and then as t2.
Generator_new_with_prefix(p, t1, t2) ==
    [current |-> ByteCounter_new_with_prefix(p, t1),
     end |-> ByteCounter_new_with_prefix(p, t2)]

\* A forward step that also runs when the two cursors are equal.
Generator_next_Leq(g, t) ==
    IF ~ByteCounter_lt(g.end, g.current)
    THEN [gen |-> [g EXCEPT !.current = next_id(g.current, t)],
          item |-> Some(g.current)]
    ELSE [gen |-> g, item |-> None]

\* A forward step that advances the cursor before it returns it.
Generator_next_AdvanceFirst(g, t) ==
    IF ByteCounter_lt(g.current, g.end)
    THEN [gen |-> [g EXCEPT !.current = next_id(g.current, t)],
          item |-> Some(next_id(g.current, t))]
    ELSE [gen |-> g, item |-> None]

\* Iterator::next for Generator at clock t: the generator after the call and
\* the Option returned.
Generator_next(g, t) ==
    IF ByteCounter_lt(g.current, g.end)
    THEN [gen |-> [g EXCEPT !.current = next_id(g.current, t)],
          item |-> Some(g.current)]
    ELSE [gen |-> g, item |-> None]

\* DoubleEndedIterator::next_back for Generator at clock t.
Generator_next_back(g, t) ==
    IF ByteCounter_lt(g.current, g.end)
    THEN [gen |-> [g EXCEPT !.end = prev_id(g.end, t)],
          item |-> Some(g.end)]
    ELSE [gen |-> g, item |-> None]

\* --------------------------------------------------------- positional value

RECURSIVE Pos(_)
\* The big-endian base-256 value of a byte sequence.
Pos(id) ==
    IF Len(id) = 0 THEN 0
    ELSE Pos(SubSeq(id, 1, Len(id) - 1)) * (U8_MAX + 1) + id[Len(id)]

RECURSIVE Pow256(_)
Pow256(n) == IF n = 0 THEN 1 ELSE (U8_MAX + 1) * Pow256(n - 1)

Last(s) == s[Len(s)]

\* ================================================ the counter specification

NoRet == [op |-> "none"]

CounterPrefixes == {None, Some(<<"a">>)}

\* Ids of the second argument of a distance or a comparison: zero, one, the
\* maximum, and a one in the most significant byte alone.
OtherIds(w) ==
    {ZeroId(w), MaxId(w),
     [i \in 1..w |-> IF i = w THEN 1 ELSE 0],
     [i \in 1..w |-> IF i = 1 THEN 1 ELSE 0]}

Width(k) == IF k = "BigID" THEN BIG_IDENTIFIER_SIZE ELSE IDENTIFIER_SIZE

\* The counters a call may be handed besides those of the chain.
Others ==
    IF kind = "BigID"
    THEN [id : OtherIds(BIG_IDENTIFIER_SIZE), prefix : CounterPrefixes,
          valid : {TRUE}]
    ELSE [prefix : CounterPrefixes, timestamp : {1, now},
          id : OtherIds(IDENTIFIER_SIZE), valid : {TRUE}]

Chained == {chain[i] : i \in 1..Len(chain)}

InitCounter ==
    /\ now = 1
    /\ kind \in {"ByteCounter", "BigID"}
    /\ \E id \in Ids(Width(kind)), p \in CounterPrefixes :
          chain = IF kind = "BigID"
                  THEN << [id |-> id, prefix |-> p, valid |-> TRUE] >>
                  ELSE << [prefix |-> p, timestamp |-> Timestamp_new(now),
                           id |-> id, valid |-> TRUE] >>
    /\ ops = <<>>
    /\ ret = NoRet
    /\ current = ByteCounter_default(1)
    /\ end = ByteCounter_default(1)
    /\ start0 = current
    /\ end0 = end
    /\ ctor = "none"
    /\ fwd = <<>>
    /\ bwd = <<>>
    /\ result = None
    /\ lastCall = "none"
    /\ src = None
    /\ text = None
    /\ decoded = None

\* The wall clock advances by a second.
Tick ==
    /\ now < MaxClock
    /\ now' = now + 1
    /\ UNCHANGED <<counterVars, generatorVars, codecVars>>

CallNextId ==
    /\ kind = "ByteCounter"
    /\ Len(ops) < MaxSteps
    /\ chain' = Append(chain, next_id(Last(chain), now))
    /\ ops' = Append(ops, "next_id")
    /\ ret' = NoRet
    /\ UNCHANGED <<now, kind, generatorVars, codecVars>>

CallPrevId ==
    /\ kind = "ByteCounter"
    /\ Len(ops) < MaxSteps
    /\ chain' = Append(chain, prev_id(Last(chain), now))
    /\ ops' = Append(ops, "prev_id")
    /\ ret' = NoRet
    /\ UNCHANGED <<now, kind, generatorVars, codecVars>>

\* The calls below are pure: ret keeps one result per state of the chain.
CallToU128 ==
    /\ kind = "ByteCounter"
    /\ ret = NoRet
    /\ \E c \in Chained \cup Others :
          ret' = [op |-> "to_u128", self |-> c, val |-> to_u128(c)]
    /\ UNCHANGED <<now, kind, chain, ops, generatorVars, codecVars>>

CallDistance ==
    /\ kind = "ByteCounter"
    /\ ret = NoRet
    /\ \E c \in Chained, o \in Chained \cup Others :
          ret' = [op |-> "distance", self |-> c, o |-> o, val |-> distance(c, o)]
    /\ UNCHANGED <<now, kind, chain, ops, generatorVars, codecVars>>

\* a < b of the derived ordering.
CallLt ==
    /\ kind = "ByteCounter"
    /\ ret = NoRet
    /\ \E c \in Chained, o \in Chained \cup Others :
          ret' = [op |-> "lt", self |-> c, o |-> o, val |-> ByteCounter_lt(c, o)]
    /\ UNCHANGED <<now, kind, chain, ops, generatorVars, codecVars>>

CallBigNext ==
    /\ kind = "BigID"
    /\ Len(ops) < MaxSteps
    /\ chain' = Append(chain, BigID_next(Last(chain)))
    /\ ops' = Append(ops, "next")
    /\ ret' = NoRet
    /\ UNCHANGED <<now, kind, generatorVars, codecVars>>

CallBigToU128 ==
    /\ kind = "BigID"
    /\ ret = NoRet
    /\ \E c \in Chained \cup Others :
          ret' = [op |-> "to_u128", self |-> c, val |-> BigID_to_u128(c)]
    /\ UNCHANGED <<now, kind, chain, ops, generatorVars, codecVars>>

CallBigDistance ==
    /\ kind = "BigID"
    /\ ret = NoRet
    /\ \E c \in Chained, o \in Chained \cup Others :
          ret' = [op |-> "distance", self |-> c, o |-> o, val |-> BigID_distance(c, o)]
    /\ UNCHANGED <<now, kind, chain, ops, generatorVars, codecVars>>

NextCounter ==
    \/ Tick
    \/ CallNextId
    \/ CallPrevId
    \/ CallToU128
    \/ CallDistance
    \/ CallLt
    \/ CallBigNext
    \/ CallBigToU128
    \/ CallBigDistance

SpecCounter == InitCounter /\ [][NextCounter]_vars

\* ------------------------------------------------- claims about the counter

IsNext(op) == op \in {"next_id", "next"}

\* C5: increment (ByteCounter::next_id, BigID::next) returns a counter of the
\* same width whose positional value is that of its argument plus one, modulo
\* 256^W; an all-0xFF argument gives all-zero bytes.
C5_IncrementAddsOne ==
    \A i \in 1..Len(ops) :
        IsNext(ops[i]) =>
            /\ Len(chain[i + 1].id) = Len(chain[i].id)
            /\ Pos(chain[i + 1].id)
                 = (Pos(chain[i].id) + 1) % Pow256(Len(chain[i].id))

\* An increment has carried out of the most significant byte.
C5_Witness ==
    \E i \in 1..Len(ops) :
        /\ ops[i] = "next_id"
        /\ chain[i].id = MaxId(IDENTIFIER_SIZE)
        /\ chain[i + 1].id = ZeroId(IDENTIFIER_SIZE)

\* C6: decrement (ByteCounter::prev_id) returns a counter of the same width
\* whose positional value is that of its argument minus one, modulo 256^W; an
\* all-zero argument gives all-0xFF bytes.
C6_DecrementSubtractsOne ==
    \A i \in 1..Len(ops) :
        ops[i] = "prev_id" =>
            /\ Len(chain[i + 1].id) = Len(chain[i].id)
            /\ Pos(chain[i + 1].id)
                 = (Pos(chain[i].id) + Pow256(Len(chain[i].id)) - 1)
                      % Pow256(Len(chain[i].id))

\* A decrement has borrowed out of the most significant byte.
C6_Witness ==
    \E i \in 1..Len(ops) :
        /\ ops[i] = "prev_id"
        /\ chain[i].id = ZeroId(IDENTIFIER_SIZE)
        /\ chain[i + 1].id = MaxId(IDENTIFIER_SIZE)

\* C7: away from the wrap boundary, increment then decrement, and decrement
\* then increment, give back the bytes they started from.
C7_RoundTrip ==
    \A i \in 1..(Len(ops) - 1) :
        /\ (ops[i] = "next_id" /\ ops[i + 1] = "prev_id"
              /\ chain[i].id # MaxId(IDENTIFIER_SIZE))
           => chain[i + 2].id = chain[i].id
        /\ (ops[i] = "prev_id" /\ ops[i + 1] = "next_id"
              /\ chain[i].id # ZeroId(IDENTIFIER_SIZE))
           => chain[i + 2].id = chain[i].id

\* An increment that carried into a higher byte has been undone by a decrement.
C7_Witness ==
    \E i \in 1..(Len(ops) - 1) :
        /\ ops[i] = "next_id" /\ ops[i + 1] = "prev_id"
        /\ chain[i].id[IDENTIFIER_SIZE] = U8_MAX
        /\ chain[i].id # MaxId(IDENTIFIER_SIZE)
        /\ chain[i + 2].id = chain[i].id

\* C8: to_u128 returns the positional big-endian base-256 value of the bytes.
C8_ToU128IsPositional ==
    ret.op = "to_u128" => ret.val = Pos(ret.self.id)

\* The chain positions i < j such that chain[j] was reached from chain[i] by
\* increments alone, none of them applied to the maximum value.
IncrementRuns ==
    {p \in (1..Len(chain)) \X (1..Len(chain)) :
        /\ p[1] < p[2]
        /\ \A m \in p[1]..(p[2] - 1) :
              IsNext(ops[m]) /\ chain[m].id # MaxId(Len(chain[m].id))}

\* C9: the distance between a counter and the one reached from it by k
\* increments is k (1 for a single increment of a counter not at the maximum),
\* the distance between a counter not at zero and its decrement is 1, and
\* distance is symmetric.
C9_DistanceCountsSteps ==
    ret.op = "distance" =>
        /\ \A p \in IncrementRuns :
              (ret.self = chain[p[1]] /\ ret.o = chain[p[2]]) => ret.val = p[2] - p[1]
        /\ \A i \in 1..Len(ops) :
              (/\ ops[i] = "prev_id"
               /\ chain[i].id # ZeroId(IDENTIFIER_SIZE)
               /\ ret.self = chain[i] /\ ret.o = chain[i + 1]) => ret.val = 1
        /\ ret.val = (IF kind = "BigID" THEN BigID_distance(ret.o, ret.self)
                      ELSE distance(ret.o, ret.self))

\* C10: two ByteCounters with the same prefix and the same timestamp compare
\* a < b exactly when to_u128(a) < to_u128(b).
C10_OrderIsNumeric ==
    (/\ ret.op = "lt"
     /\ ret.self.prefix = ret.o.prefix
     /\ ret.self.timestamp = ret.o.timestamp)
    => (ret.val <=> (to_u128(ret.self) < to_u128(ret.o)))

\* ============================================== the generator specification

\* Successful steps a Generator is followed for: with bounds of different
\* timestamps next_back alone never exhausts it.
MaxEmit == 4

RECURSIVE NextTimes(_, _)
\* id incremented k times.
NextTimes(id, k) == IF k = 0 THEN id ELSE NextTimes(next_bytes(id), k - 1)

RECURSIVE PrevTimes(_, _)
\* id decremented k times.
PrevTimes(id, k) == IF k = 0 THEN id ELSE PrevTimes(prev_bytes(id), k - 1)

\* The ids at most MaxRange increments or decrements away from id.
Near(id) ==
    {NextTimes(id, k) : k \in 0..MaxRange} \cup {PrevTimes(id, k) : k \in 1..MaxRange}

\* The generators a run starts from: built by Generator::new or
\* Generator::new_with_prefix while the clock reads t1 and then t2, or given
\* two bounds of any prefixes and timestamps whose ids are near each other.
InitGenerator ==
    /\ \E t1 \in Clock, t2 \in Clock :
          /\ t1 <= t2
          /\ now = t2
          /\ \/ /\ ctor = "new"
                /\ current = Generator_new(t1, t2).current
                /\ end = Generator_new(t1, t2).end
             \/ /\ ctor = "new_with_prefix"
                /\ \E p \in {<<"a">>, <<"b">>} :
                      /\ current = Generator_new_with_prefix(p, t1, t2).current
                      /\ end = Generator_new_with_prefix(p, t1, t2).end
    /\ start0 = current
    /\ end0 = end
    /\ fwd = <<>>
    /\ bwd = <<>>
    /\ result = None
    /\ lastCall = "none"
    /\ src = None
    /\ text = None
    /\ decoded = None
    /\ kind = "none"
    /\ chain = <<>>
    /\ ops = <<>>
    /\ ret = NoRet

InitRange ==
    /\ ctor = "range"
    /\ \E p1 \in Prefixes, p2 \in Prefixes, t1 \in Clock, t2 \in Clock,
          id1 \in Ids(IDENTIFIER_SIZE) :
          \E id2 \in Near(id1) :
             /\ current = [prefix |-> p1, timestamp |-> t1, id |-> id1, valid |-> TRUE]
             /\ end = [prefix |-> p2, timestamp |-> t2, id |-> id2, valid |-> TRUE]
             /\ now = IF t1 < t2 THEN t2 ELSE t1
    /\ start0 = current
    /\ end0 = end
    /\ fwd = <<>>
    /\ bwd = <<>>
    /\ result = None
    /\ lastCall = "none"
    /\ src = None
    /\ text = None
    /\ decoded = None
    /\ kind = "none"
    /\ chain = <<>>
    /\ ops = <<>>
    /\ ret = NoRet

Gen == [current |-> current, end |-> end]

Emitted == Len(fwd) + Len(bwd)

\* A call of next().
CallNext ==
    LET r == Generator_next(Gen, now) IN
    /\ r.item # None => Emitted < MaxEmit
    /\ current' = r.gen.current
    /\ end' = r.gen.end
    /\ result' = r.item
    /\ fwd' = IF r.item = None THEN fwd ELSE Append(fwd, r.item[1])
    /\ lastCall' = "next"
    /\ UNCHANGED <<now, bwd, start0, end0, ctor, counterVars, codecVars>>

\* A call of next_back().
CallNextBack ==
    LET r == Generator_next_back(Gen, now) IN
    /\ r.item # None => Emitted < MaxEmit
    /\ current' = r.gen.current
    /\ end' = r.gen.end
    /\ result' = r.item
    /\ bwd' = IF r.item = None THEN bwd ELSE Append(bwd, r.item[1])
    /\ lastCall' = "next_back"
    /\ UNCHANGED <<now, fwd, start0, end0, ctor, counterVars, codecVars>>

NextGen ==
    \/ Tick
    \/ CallNext
    \/ CallNextBack

SpecGen == (InitGenerator \/ InitRange) /\ [][NextGen]_vars

\* ----------------------------------------------- claims about the generator

Exhausted == ~ByteCounter_lt(current, end)

EmittedSeq == fwd \o bwd

\* The ids of the half-open interval [start0, end0) of two bounds of one
\* prefix and timestamp.
IntervalIds ==
    {NextTimes(start0.id, k) : k \in 0..(Pos(end0.id) - Pos(start0.id) - 1)}

\* The two bounds share prefix and timestamp, start0 < end0, and the clock
\* has stood still since they were made.
SameStampRange ==
    /\ start0.prefix = end0.prefix
    /\ start0.timestamp = end0.timestamp
    /\ now = start0.timestamp
    /\ ByteCounter_lt(start0, end0)

\* C1: with bounds of one prefix and timestamp, start < end and the clock held,
\* no id is emitted twice whatever the mix of next() and next_back(), and once
\* the generator is exhausted every id of [start, end) has been emitted
\* exactly once.
C1_EachValueOnce ==
    SameStampRange =>
        /\ \A i \in 1..Len(EmittedSeq), j \in 1..Len(EmittedSeq) :
              i # j => EmittedSeq[i].id # EmittedSeq[j].id
        /\ Exhausted =>
              \A x \in IntervalIds :
                 Cardinality({i \in 1..Len(EmittedSeq) : EmittedSeq[i].id = x}) = 1

\* C2: a successful next_back() returns the end cursor it has just
\* decremented: the k-th element of backward iteration is the original end
\* decremented k times.
C2_BackwardReturnsPredecessor ==
    /\ \A k \in 1..Len(bwd) : bwd[k].id = PrevTimes(end0.id, k)
    /\ (lastCall = "next_back" /\ result # None) => result[1] = end

\* C3: while start is not below end, a call of next() or next_back() returns
\* None and no step changes a cursor or emits: an exhausted generator stays
\* exhausted.
C3_ExhaustedStays ==
    [][Exhausted =>
          /\ current' = current
          /\ end' = end
          /\ fwd' = fwd
          /\ bwd' = bwd
          /\ (now' = now => result' = None)
          /\ ~ByteCounter_lt(current', end')]_vars

\* A generator whose bounds were equal from the start has been asked for an
\* element from the back.
C3_Witness ==
    /\ start0 = end0
    /\ lastCall = "next_back"
    /\ result = None

\* C4: a generator built by Generator::new() or Generator::new_with_prefix(p)
\* has equal cursors and yields no element.
C4_NewIsEmpty ==
    ctor \in {"new", "new_with_prefix"} =>
        /\ start0 = end0
        /\ fwd = <<>>
        /\ bwd = <<>>


\* ------------------------------------------------------- text and parsing

Digits == <<"0", "1", "2", "3", "4", "5", "6", "7", "8", "9">>

IsDigit(ch) == \E i \in 1..Len(Digits) : Digits[i] = ch

DigitVal(ch) == (CHOOSE i \in 1..Len(Digits) : Digits[i] = ch) - 1

\* format!("{}", n) of an unsigned number: its decimal digits, no padding.
RECURSIVE Format(_)
Format(n) ==
    IF n < 10 THEN <<Digits[n + 1]>>
    ELSE Format(n \div 10) \o <<Digits[(n % 10) + 1]>>

RECURSIVE DecVal(_)
DecVal(s) ==
    IF Len(s) = 0 THEN 0
    ELSE 10 * DecVal(SubSeq(s, 1, Len(s) - 1)) + DigitVal(s[Len(s)])

\* str::parse of an unsigned integer type, before the range check: one
\* optional leading "+", then at least one character, all of them decimal
\* digits.  Some(value), or None for Err.
ParseUnsigned(s) ==
    LET body == IF Len(s) > 0 /\ s[1] = "+" THEN Tail(s) ELSE s
    IN  IF Len(body) = 0 \/ (\E i \in 1..Len(body) : ~IsDigit(body[i]))
        THEN None
        ELSE Some(DecVal(body))

\* s.parse::<u8>(): Err above u8::MAX.
ParseU8(s) ==
    LET r == ParseUnsigned(s)
    IN  IF r # None /\ r[1] > U8_MAX THEN None ELSE r

RECURSIVE SplitFrom(_, _, _, _)
SplitFrom(s, sep, i, part) ==
    IF i > Len(s) THEN <<part>>
    ELSE IF s[i] = sep THEN <<part>> \o SplitFrom(s, sep, i + 1, <<>>)
    ELSE SplitFrom(s, sep, i + 1, Append(part, s[i]))

\* s.split(sep).collect(): one part more than s has separators.
Split(s, sep) == SplitFrom(s, sep, 1, <<>>)

\* chars.chunks(n): consecutive groups of n, the last one shorter when the
\* length is not a multiple of n.
Chunks(s, n) ==
    [k \in 1..((Len(s) + n - 1) \div n) |->
        SubSeq(s, n * (k - 1) + 1, IF n * k < Len(s) THEN n * k ELSE Len(s))]

RECURSIVE Join(_)
Join(ss) == IF Len(ss) = 0 THEN <<>> ELSE Head(ss) \o Join(Tail(ss))

\* Timestamp::from(&str): the parsed number, or 0 when it does not parse.
\* The texts of the model have fewer digits than u64::MAX.
Timestamp_from(s) ==
    LET r == ParseUnsigned(s) IN IF r = None THEN 0 ELSE r[1]

\* ---------------------------------------------------- counter.rs: decoding

\* What a call did: it returned val, or it panicked.
Returned(x) == [ok |-> TRUE, val |-> x]

Panicked == [ok |-> FALSE]

\* decode_bytes, first half: the segment aligned to w groups of three.
Aligned(str_bytes, w) ==
    LET byte_count == Len(str_bytes) \div 3
    IN  IF byte_count < w
        THEN [i \in 1..((w - byte_count) * 3) |-> "0"] \o str_bytes
        ELSE IF byte_count = w THEN str_bytes
        ELSE SubSeq(str_bytes, Len(str_bytes) - (w * 3) + 1, Len(str_bytes))

\* decode_bytes, second half: each chunk of three parsed as u8 and unwrapped,
\* then clone_from_slice into [u8; w], which panics unless there are exactly
\* w bytes.  Some(bytes), or None for a panic.
mem_id(str_bytes, w) ==
    LET chunks == Chunks(Aligned(str_bytes, w), 3)
        parsed == [k \in 1..Len(chunks) |-> ParseU8(chunks[k])]
    IN  IF \E k \in 1..Len(chunks) : parsed[k] = None THEN None
        ELSE IF Len(chunks) # w THEN None
        ELSE Some([k \in 1..w |-> parsed[k][1]])

\* ByteCounter::decode_bytes(str_bytes) at clock reading t.
decode_bytes(str_bytes, t) ==
    LET m == mem_id(str_bytes, IDENTIFIER_SIZE)
    IN  IF m = None THEN Panicked
        ELSE Returned([prefix |-> None, timestamp |-> Timestamp_new(t),
                       id |-> m[1], valid |-> TRUE])

\* The text of one byte: three decimal digits, zero-padded on the left.
ByteText(b) ==
    IF b < 10 THEN <<"0", "0">> \o Format(b)
    ELSE IF b < 100 THEN <<"0">> \o Format(b)
    ELSE Format(b)

IdText(id) == Join([i \in 1..Len(id) |-> ByteText(id[i])])

\* ByteCounter::to_string(&self).
to_string(self) ==
    IF self.prefix # None
    THEN self.prefix[1] \o <<":">> \o Format(self.timestamp) \o <<":">>
         \o IdText(self.id)
    ELSE Format(self.timestamp) \o <<":">> \o IdText(self.id)

\* A from() that reads the timestamp field and leaves the valid flag as it is.
WithTimestamp_KeepsValid(obj, timestamp) ==
    [obj EXCEPT !.timestamp = Timestamp_from(timestamp)]

\* What from() leaves of a decoded segment once the timestamp field is read.
WithTimestamp(obj, timestamp) ==
    [obj EXCEPT !.timestamp = Timestamp_from(timestamp),
                !.valid = IF Timestamp_from(timestamp) = 0 THEN FALSE ELSE @]

\* ByteCounter::from(key: &String) at clock reading t.
ByteCounter_from(key, t) ==
    LET parts == Split(key, ":")
    IN  IF Len(parts) = 3
        THEN LET d == decode_bytes(parts[3], t)
             IN  IF ~d.ok THEN Panicked
                 ELSE Returned(WithTimestamp(
                          [d.val EXCEPT !.prefix = Some(parts[1])], parts[2]))
        ELSE IF Len(parts) = 2
        THEN LET d == decode_bytes(parts[2], t)
             IN  IF ~d.ok THEN Panicked
                 ELSE Returned(WithTimestamp(d.val, parts[1]))
        ELSE Returned([prefix |-> None, timestamp |-> Timestamp_new(t),
                       id |-> ZeroId(IDENTIFIER_SIZE), valid |-> FALSE])

\* #[derive(PartialEq, Eq)] on ByteCounter: every field equal.
ByteCounter_eq(a, b) ==
    /\ a.prefix = b.prefix
    /\ a.timestamp = b.timestamp
    /\ a.id = b.id
    /\ a.valid = b.valid

\* --------------------------------------------------------- id.rs: decoding

\* BigID::decode_bytes(str_bytes).
BigID_decode_bytes(str_bytes) ==
    LET m == mem_id(str_bytes, BIG_IDENTIFIER_SIZE)
    IN  IF m = None THEN Panicked
        ELSE Returned([id |-> m[1], prefix |-> None, valid |-> TRUE])

\* BigID::to_string(&self).
BigID_to_string(self) ==
    IF self.prefix # None
    THEN self.prefix[1] \o <<":">> \o IdText(self.id)
    ELSE IdText(self.id)

\* A from() that also decodes a segment behind two leading fields.
BigID_from_UpToThree(key) ==
    LET parts == Split(key, ":")
    IN  IF Len(parts) \in {2, 3}
        THEN LET d == BigID_decode_bytes(parts[Len(parts)])
             IN  IF ~d.ok THEN Panicked
                 ELSE Returned([d.val EXCEPT !.prefix = Some(parts[1])])
        ELSE IF Len(parts) = 1
        THEN BigID_decode_bytes(parts[1])
        ELSE Returned([id |-> ZeroId(BIG_IDENTIFIER_SIZE), valid |-> FALSE,
                       prefix |-> None])

\* BigID::from(key: &str).
BigID_from(key) ==
    LET parts == Split(key, ":")
    IN  IF Len(parts) = 2
        THEN LET d == BigID_decode_bytes(parts[2])
             IN  IF ~d.ok THEN Panicked
                 ELSE Returned([d.val EXCEPT !.prefix = Some(parts[1])])
        ELSE IF Len(parts) = 1
        THEN BigID_decode_bytes(parts[1])
        ELSE Returned([id |-> ZeroId(BIG_IDENTIFIER_SIZE), valid |-> FALSE,
                       prefix |-> None])

\* #[derive(PartialEq, Eq)] on BigID: every field equal.
BigID_eq(a, b) ==
    /\ a.id = b.id
    /\ a.prefix = b.prefix
    /\ a.valid = b.valid


\* ------------------------------------------- the encoder and decoder, called

\* Prefixes of the counters to_string() is called on: absent, empty, plain,
\* and one that holds the field separator.
CodecPrefixes == {None, Some(<<>>), Some(<<"a">>), Some(<<"a", ":", "b">>)}

\* The valid counters to_string() is called on.
SrcCounters(k) ==
    IF k = "BigID"
    THEN [id : Ids(BIG_IDENTIFIER_SIZE), prefix : CodecPrefixes, valid : {TRUE}]
    ELSE [prefix : CodecPrefixes, timestamp : Clock,
          id : Ids(IDENTIFIER_SIZE), valid : {TRUE}]

\* Three-character groups of the segments handed to the decoder: in range,
\* out of range, with a letter, with a sign.
Groups == {<<"0", "0", "1">>, <<"2", "5", "5">>, <<"2", "5", "6">>,
           <<"0", "a", "1">>, <<"+", "0", "1">>}

\* What follows the last complete group of a segment.
Tails == {<<>>, <<"1">>, <<"1", "2">>}

\* Segments of up to w + 1 complete groups, so that padding, exact fit and
\* truncation all occur.
Segments(w) ==
    {Join(gs) \o tl : gs \in UNION {[1..n -> Groups] : n \in 0..(w + 1)},
                      tl \in Tails}

\* The fields in front of the segment: none; a timestamp that is a positive
\* number, zero or not a number; a prefix and a timestamp; one field more.
Leads ==
    {<<>>}
    \cup {f \o <<":">> : f \in {<<"1">>, <<"1", "2">>, <<"+", "1">>, <<"0">>,
                                <<"a">>, <<>>}}
    \cup {<<"a", ":">> \o f \o <<":">> : f \in {<<"1">>, <<"0">>, <<"a">>}}
    \cup {<<"a", ":", "a", ":", "1", ":">>}

\* The texts handed to from().
Keys(k) == {l \o sg : l \in Leads, sg \in Segments(Width(k))}

InitCodec ==
    /\ now = 1
    /\ kind \in {"ByteCounter", "BigID"}
    /\ \/ /\ src \in {Some(c) : c \in SrcCounters(kind)}
          /\ text = None
       \/ /\ src = None
          /\ text \in {Some(k) : k \in Keys(kind)}
    /\ decoded = None
    /\ chain = <<>>
    /\ ops = <<>>
    /\ ret = NoRet
    /\ current = ByteCounter_default(1)
    /\ end = ByteCounter_default(1)
    /\ start0 = current
    /\ end0 = end
    /\ ctor = "none"
    /\ fwd = <<>>
    /\ bwd = <<>>
    /\ result = None
    /\ lastCall = "none"

CallToString ==
    /\ kind = "ByteCounter"
    /\ src # None
    /\ text = None
    /\ text' = Some(to_string(src[1]))
    /\ UNCHANGED <<now, src, decoded, counterVars, generatorVars>>

CallBigToString ==
    /\ kind = "BigID"
    /\ src # None
    /\ text = None
    /\ text' = Some(BigID_to_string(src[1]))
    /\ UNCHANGED <<now, src, decoded, counterVars, generatorVars>>

CallFrom ==
    /\ kind = "ByteCounter"
    /\ text # None
    /\ decoded = None
    /\ decoded' = Some(ByteCounter_from(text[1], now))
    /\ UNCHANGED <<now, src, text, counterVars, generatorVars>>

CallBigFrom ==
    /\ kind = "BigID"
    /\ text # None
    /\ decoded = None
    /\ decoded' = Some(BigID_from(text[1]))
    /\ UNCHANGED <<now, src, text, counterVars, generatorVars>>

\* The counters a decoded counter is compared with: a fresh default one, the
\* encoded one, and the decoded one with the other valid flag.
Comparands(d) ==
    {[d EXCEPT !.valid = ~@]}
    \cup {src[i] : i \in 1..Len(src)}
    \cup (IF kind = "BigID" THEN {BigID_default} ELSE {ByteCounter_default(now)})

\* a == b, a < b and b < a of a decoded ByteCounter a.
CallEq ==
    /\ kind = "ByteCounter"
    /\ decoded # None
    /\ decoded[1].ok
    /\ ret = NoRet
    /\ \E b \in Comparands(decoded[1].val) :
          ret' = [op |-> "cmp", a |-> decoded[1].val, b |-> b,
                  eq |-> ByteCounter_eq(decoded[1].val, b),
                  lt |-> ByteCounter_lt(decoded[1].val, b),
                  gt |-> ByteCounter_lt(b, decoded[1].val)]
    /\ UNCHANGED <<now, kind, chain, ops, codecVars, generatorVars>>

\* a == b of a decoded BigID a, which has no ordering.
CallBigEq ==
    /\ kind = "BigID"
    /\ decoded # None
    /\ decoded[1].ok
    /\ ret = NoRet
    /\ \E b \in Comparands(decoded[1].val) :
          ret' = [op |-> "cmp", a |-> decoded[1].val, b |-> b,
                  eq |-> BigID_eq(decoded[1].val, b),
                  lt |-> FALSE, gt |-> FALSE]
    /\ UNCHANGED <<now, kind, chain, ops, codecVars, generatorVars>>

NextCodec ==
    \/ Tick
    \/ CallToString
    \/ CallBigToString
    \/ CallFrom
    \/ CallBigFrom
    \/ CallEq
    \/ CallBigEq

SpecCodec == InitCodec /\ [][NextCodec]_vars

\* ------------------------------------------------ claims about the encoding

\* from() was called on the text to_string() returned.
RoundTripped == src # None /\ text # None /\ decoded # None

\* C11: for every valid counter c, whatever its bytes, prefix and timestamp,
\* decoding the text c.to_string() returned yields a counter with the bytes,
\* the prefix and the timestamp of c; the timestamp is the one of the text,
\* not the clock reading at the decoding.
C11_DecodeEncode ==
    RoundTripped =>
        /\ decoded[1].ok
        /\ decoded[1].val.id = src[1].id
        /\ decoded[1].val.prefix = src[1].prefix
        /\ kind = "ByteCounter" => decoded[1].val.timestamp = src[1].timestamp

\* from() was called on a text.
Decoded == text # None /\ decoded # None

\* The parts of the decoded text, and its segment: the last part.
Parts == Split(text[1], ":")

Segment == Parts[Len(Parts)]

\* The segment is a run of whole groups of three digits, each within 0..255.
GoodSegment(sg) ==
    /\ Len(sg) % 3 = 0
    /\ \A i \in 1..Len(sg) : IsDigit(sg[i])
    /\ \A k \in 1..(Len(sg) \div 3) :
          DecVal(SubSeq(sg, 3 * k - 2, 3 * k)) <= U8_MAX

GroupBytes(sg) ==
    [k \in 1..(Len(sg) \div 3) |-> DecVal(SubSeq(sg, 3 * k - 2, 3 * k))]

\* The bytes of the groups of a segment aligned to w: leading zero bytes for
\* the missing groups, the trailing w groups when there are more.
AlignedBytes(sg, w) ==
    LET b == GroupBytes(sg)
    IN  IF Len(b) < w THEN ZeroId(w - Len(b)) \o b
        ELSE SubSeq(b, Len(b) - w + 1, Len(b))

\* The timestamp field of a ByteCounter text reads a number other than zero.
StampReads ==
    kind = "ByteCounter" /\ Len(Parts) >= 2
        => Timestamp_from(Parts[Len(Parts) - 1]) # 0

InvalidZero(c) ==
    c.id = ZeroId(Width(kind)) /\ c.prefix = None /\ ~c.valid

\* C12 as stated: a text of 1, 2 or 3 parts with a good segment (and a
\* timestamp field that reads) decodes to a valid counter with the bytes of
\* the segment; a text of any other part count decodes, without an error, to
\* an invalid counter of zero bytes.
C12_AsStated ==
    Decoded /\ GoodSegment(Segment) /\ StampReads =>
        /\ decoded[1].ok
        /\ IF Len(Parts) \in 1..3
           THEN /\ decoded[1].val.id = AlignedBytes(Segment, Width(kind))
                /\ decoded[1].val.valid
           ELSE InvalidZero(decoded[1].val)

\* The part counts each type decodes a segment for.
Supported(k) == IF k = "BigID" THEN {1, 2} ELSE {2, 3}

\* C12, amended: ByteCounter decodes texts of 2 or 3 parts and BigID texts of
\* 1 or 2 parts; with such a count and a good segment the result has the
\* bytes of the segment, the first part as prefix when the count is the larger
\* one, and is valid unless a ByteCounter's timestamp field reads zero; with
\* any other count the result is, without an error, an invalid counter of
\* zero bytes and no prefix, whatever the segment.
C12_Dispatch ==
    Decoded =>
        IF Len(Parts) \in Supported(kind)
        THEN GoodSegment(Segment) =>
                /\ decoded[1].ok
                /\ decoded[1].val.id = AlignedBytes(Segment, Width(kind))
                /\ decoded[1].val.prefix =
                      IF Len(Parts) = (IF kind = "BigID" THEN 2 ELSE 3)
                      THEN Some(Parts[1]) ELSE None
                /\ decoded[1].val.valid <=> StampReads
        ELSE decoded[1].ok /\ InvalidZero(decoded[1].val)

\* A ByteCounter text of one part with a good nonzero segment was decoded to
\* the invalid zero counter, and a BigID text of three parts likewise.
C12_Witness ==
    /\ Decoded
    /\ GoodSegment(Segment)
    /\ AlignedBytes(Segment, Width(kind)) # ZeroId(Width(kind))
    /\ Len(Parts) = (IF kind = "BigID" THEN 3 ELSE 1)
    /\ decoded[1].ok
    /\ InvalidZero(decoded[1].val)

\* C13: a segment of one or two decimal digits is decoded without an error,
\* to the bytes that are all zero except the last, which is the value of the
\* digits.
C13_ShortSegmentPads ==
    /\ Decoded
    /\ Len(Parts) \in Supported(kind)
    /\ Len(Segment) \in {1, 2}
    /\ \A i \in 1..Len(Segment) : IsDigit(Segment[i])
    => /\ decoded[1].ok
       /\ decoded[1].val.id = ZeroId(Width(kind) - 1) \o <<DecVal(Segment)>>

\* A group of three characters that holds a character other than a digit, or
\* whose digits denote a value above 255.
BadGroup(g) ==
    /\ Len(g) = 3
    /\ IF \E i \in 1..3 : ~IsDigit(g[i]) THEN TRUE ELSE DecVal(g) > U8_MAX

AlignedGroups == Chunks(Aligned(Segment, Width(kind)), 3)

\* C14: whenever some group of the aligned segment holds a non-digit or a
\* value outside 0..255, decoding panics; no such segment becomes bytes.
C14_BadGroupPanics ==
    /\ Decoded
    /\ Len(Parts) \in Supported(kind)
    /\ \E k \in 1..Len(AlignedGroups) : BadGroup(AlignedGroups[k])
    => ~decoded[1].ok

\* The two compared counters agree in prefix, timestamp and bytes.
SameButValid(a, b) ==
    /\ a.prefix = b.prefix
    /\ a.id = b.id
    /\ kind = "ByteCounter" => a.timestamp = b.timestamp

\* C15: two counters with the same prefix, timestamp and bytes compare equal
\* and neither is less than the other, whatever their valid flags.
C15_ValidNotCompared ==
    ret.op = "cmp" /\ SameButValid(ret.a, ret.b) =>
        ret.eq /\ ~ret.lt /\ ~ret.gt

\* The segment is all digits and any three consecutive ones are within
\* 0..255, so that no grouping of it holds a group that does not parse.
DigitsInRange(sg) ==
    /\ \A i \in 1..Len(sg) : IsDigit(sg[i])
    /\ \A i \in 1..(Len(sg) - 2) : DecVal(SubSeq(sg, i, i + 2)) <= U8_MAX

\* C18: a segment is aligned to exactly W groups before it is parsed: fewer
\* groups are preceded by zero bytes, W groups are taken as they are, and of
\* more than W groups the trailing W are kept; for every segment length the
\* result has exactly W bytes.
C18_AlignsToWidth ==
    /\ Decoded
    /\ Len(Parts) \in Supported(kind)
    /\ DigitsInRange(Segment)
    => /\ decoded[1].ok
       /\ Len(decoded[1].val.id) = Width(kind)
       /\ Len(Segment) % 3 = 0
             => decoded[1].val.id = AlignedBytes(Segment, Width(kind))

\* ------------------------------------ claims about the generator, continued

\* No second has passed since the generator was made.
ClockHeld ==
    now = IF start0.timestamp < end0.timestamp
          THEN end0.timestamp ELSE start0.timestamp

RECURSIVE NextIdTimes(_, _, _)
\* c incremented k times while the clock reads t.
NextIdTimes(c, k, t) ==
    IF k = 0 THEN c ELSE next_id(NextIdTimes(c, k - 1, t), t)

\* The elements next() has returned are the start bound incremented 0, 1,
\* 2, ... times, in prefix, timestamp and bytes.
ForwardIsIncrements ==
    \A k \in 1..Len(fwd) :
       /\ fwd[k].prefix = NextIdTimes(start0, k - 1, now).prefix
       /\ fwd[k].timestamp = NextIdTimes(start0, k - 1, now).timestamp
       /\ fwd[k].id = NextIdTimes(start0, k - 1, now).id

\* Each element next() has returned is one above the one before it.
ForwardStepsByOne ==
    \A k \in 1..(Len(fwd) - 1) : Pos(fwd[k + 1].id) = Pos(fwd[k].id) + 1

\* C16 as stated: with the clock held, forward-only iteration of any
\* generator returns the start bound incremented 0, 1, 2, ... times, and
\* consecutive elements rise by exactly one in positional value.
C16_AsStated ==
    ClockHeld /\ bwd = <<>> => ForwardIsIncrements /\ ForwardStepsByOne

\* C16, amended: with the clock held, forward-only iteration of any generator
\* returns the start bound incremented 0, 1, 2, ... times; when the two
\* bounds share prefix and timestamp and the clock is held at that timestamp,
\* consecutive elements rise by exactly one in positional value.
C16_ForwardIteration ==
    ClockHeld /\ bwd = <<>> =>
        /\ ForwardIsIncrements
        /\ SameStampRange => ForwardStepsByOne

\* Forward-only iteration between bounds of one prefix and timestamp has
\* returned three elements, the last one reached through a carry.
C16_Witness ==
    /\ ClockHeld
    /\ SameStampRange
    /\ bwd = <<>>
    /\ Len(fwd) >= 3
    /\ fwd[3].id[IDENTIFIER_SIZE] = 0

\* The two bounds share their prefix and the start bytes are below the end
\* bytes.
PositionalRange ==
    start0.prefix = end0.prefix /\ Pos(start0.id) < Pos(end0.id)

\* C17: for bounds of one prefix with start bytes below end bytes, under any
\* clock and any mix of next() and next_back(), each successful step moves one
\* cursor by one position towards the other, the cursors' bytes never cross
\* or wrap, and the generator is exhausted exactly when they meet, that is
\* after (end - start) successful steps.
C17_StopsOnPosition ==
    PositionalRange =>
        /\ Pos(current.id) = Pos(start0.id) + Len(fwd)
        /\ Pos(end.id) = Pos(end0.id) - Len(bwd)
        /\ Pos(current.id) <= Pos(end.id)
        /\ Exhausted <=> Pos(current.id) = Pos(end.id)

\* The successive values of the two cursors: what was returned is what the
\* cursor was before the call.
CurrentValues == fwd \o <<current>>

EndValues == bwd \o <<end>>

NonDecreasingStamps(cs) ==
    \A i \in 1..(Len(cs) - 1) : cs[i].timestamp <= cs[i + 1].timestamp

\* C19: the counter an increment or a decrement returns carries the clock
\* reading of that call, not the timestamp of the counter it was called on;
\* with a clock that never goes back, the timestamps along the successive
\* values of each generator cursor never decrease.
C19_StampIsClockReading ==
    /\ [](NonDecreasingStamps(CurrentValues) /\ NonDecreasingStamps(EndValues))
    /\ [][/\ current' # current => current'.timestamp = now
          /\ end' # end => end'.timestamp = now]_vars

\* Both cursors have moved after the clock had advanced past the timestamp
\* they were made with.
C19_Witness ==
    /\ current # start0
    /\ current.timestamp > start0.timestamp
    /\ end # end0
    /\ end.timestamp > end0.timestamp

AllPrefixed(cs, p) == \A i \in 1..Len(cs) : cs[i].prefix = p

\* C20: increment and decrement copy the prefix and leave the counter they
\* are called on as it was: every value of a cursor has the prefix of its
\* bound, the first element returned from either side is the bound itself,
\* and every element of a generator made by new_with_prefix(p) carries p
\* (None for Generator::new()).
C20_PrefixCarried ==
    /\ AllPrefixed(CurrentValues, start0.prefix)
    /\ AllPrefixed(EndValues, end0.prefix)
    /\ CurrentValues[1] = start0
    /\ EndValues[1] = end0
    /\ ctor = "new" => AllPrefixed(EmittedSeq, None)
    /\ ctor = "new_with_prefix" =>
          /\ start0.prefix # None
          /\ end0.prefix = start0.prefix
          /\ AllPrefixed(EmittedSeq, start0.prefix)

\* A generator made by new_with_prefix has returned two elements from each
\* side.
C20_Witness ==
    /\ ctor = "new_with_prefix"
    /\ Len(fwd) >= 2
    /\ Len(bwd) >= 2

\* The timestamp field of a ByteCounter text of two or three parts.
StampField == Parts[Len(Parts) - 1]

\* The field is a decimal number as the integer parser reads one: digits
\* only, after one optional sign.
IsNumber(f) ==
    LET d == IF Len(f) > 0 /\ f[1] = "+" THEN Tail(f) ELSE f
    IN  Len(d) > 0 /\ \A i \in 1..Len(d) : IsDigit(d[i])

NumberOf(f) == DecVal(IF f[1] = "+" THEN Tail(f) ELSE f)

\* C21: a ByteCounter text of two or three parts with a good segment is
\* decoded without a panic whatever its timestamp field: when the field is
\* not a number, or is zero, the result has timestamp 0 and valid=false and
\* still the bytes of the segment; when it is a number other than zero the
\* result has that timestamp and valid=true.
C21_StampFallsBackToZero ==
    /\ Decoded
    /\ kind = "ByteCounter"
    /\ Len(Parts) \in {2, 3}
    /\ GoodSegment(Segment)
    => /\ decoded[1].ok
       /\ decoded[1].val.id = AlignedBytes(Segment, IDENTIFIER_SIZE)
       /\ IF IsNumber(StampField) /\ NumberOf(StampField) # 0
          THEN /\ decoded[1].val.timestamp = NumberOf(StampField)
               /\ decoded[1].val.valid
          ELSE /\ decoded[1].val.timestamp = 0
               /\ ~decoded[1].val.valid

\* A three-part text whose timestamp field is a letter and whose segment is
\* good and not zero was decoded, after the clock had advanced.
C21_Witness ==
    /\ Decoded
    /\ kind = "ByteCounter"
    /\ Len(Parts) = 3
    /\ ~IsNumber(StampField)
    /\ GoodSegment(Segment)
    /\ AlignedBytes(Segment, IDENTIFIER_SIZE) # ZeroId(IDENTIFIER_SIZE)
    /\ now > 1
    /\ decoded[1].ok
    /\ ~decoded[1].val.valid

====
